---- MODULE Spec2Model ----
(***************************************************************************)
(* Model of src/api_fire_data.py: the FastAPI service that proxies the     *)
(* NASA FIRMS VIIRS_NOAA20_NRT feed.  The state is the module globals      *)
(* (MAP_KEY, date_today, AREA_COORDS), the wall clock, and for every       *)
(* request slot the position of its handler, its parameters, the upstream  *)
(* reply, the DataFrame get_fire_data_brazil returned, the response and    *)
(* the lines it logged.                                                    *)
(* Python values are tagged records [t |-> type name, v |-> payload].      *)
(***************************************************************************)
EXTENDS Integers, Sequences, FiniteSets, TLC

VARIABLES MAP_KEY, date_today, AREA_COORDS, now,
          pc, endpoint, days, url, fetches, reply, df, response, log

vars == <<MAP_KEY, date_today, AREA_COORDS, now,
          pc, endpoint, days, url, fetches, reply, df, response, log>>

\* ------------------------------------------------------------------ bounds
NumReq == 2       \* request slots handled concurrently
MaxRows == 3      \* rows of an upstream table
MaxDate == 3      \* distinct acquisition dates upstream can send
MaxFrp == 2       \* distinct frp readings upstream can send
MaxClock == 1     \* midnight rollovers after process start

\* ------------------------------------------------------- program constants
DAYS_DEFAULT == 10
MinDays == 1
MaxDays == 10
MinBodyLen == 10
StatusOk == 200
StatusUnprocessable == 422
StatusServerError == 500

Requests == 1 .. NumReq

\* ---------------------------------------------------------- Python values
PyNone == [t |-> "NoneType", v |-> 0]
PyInt(n) == [t |-> "int", v |-> n]
PyStr(s) == [t |-> "str", v |-> s]
\* a float is kept as the exact fraction num/den
PyFloat(n) == [t |-> "float", v |-> <<n, 1>>]
PyRatio(n, d) == [t |-> "float", v |-> <<n, d>>]
PyNaN == [t |-> "float_nan", v |-> 0]
Timestamp(z) == [t |-> "Timestamp", v |-> z]
NaT == [t |-> "NaTType", v |-> 0]
PdNA == [t |-> "NAType", v |-> 0]
PyDate(ymd) == [t |-> "date", v |-> ymd]
NpUInt32(n) == [t |-> "uint32", v |-> n]
PyList(s) == [t |-> "list", v |-> s]
PyDict(f) == [t |-> "dict", v |-> f]
StrDict(rec) == PyDict([k \in {PyStr(n) : n \in DOMAIN rec} |-> rec[k.v]])
Get(d, name) == d.v[PyStr(name)]
DataFrame(cols, rows) == [t |-> "DataFrame", columns |-> cols, rows |-> rows]

IsNull(c) == c.t \in {"NoneType", "float_nan", "NaTType", "NAType"}

\* ---------------------------------------------------------------- calendar
\* Gregorian calendar arithmetic behind pd.to_datetime, strftime and
\* isocalendar; a Timestamp is the day number since 1970-01-01 and a date
\* text 'YYYY-MM-DD' is the tuple <<YYYY, MM, DD>>.
IsLeap(y) == (y % 4 = 0 /\ y % 100 # 0) \/ y % 400 = 0

DaysInMonth(y, m) ==
    IF m = 2 THEN (IF IsLeap(y) THEN 29 ELSE 28)
    ELSE IF m \in {4, 6, 9, 11} THEN 30 ELSE 31

DaysFromCivil(y0, m, d) ==
    LET y == IF m <= 2 THEN y0 - 1 ELSE y0
        era == y \div 400
        yoe == y - era * 400
        mp == IF m > 2 THEN m - 3 ELSE m + 9
        doy == (153 * mp + 2) \div 5 + d - 1
        doe == yoe * 365 + yoe \div 4 - yoe \div 100 + doy
    IN era * 146097 + doe - 719468

CivilFromDays(z0) ==
    LET z == z0 + 719468
        era == z \div 146097
        doe == z - era * 146097
        yoe == (doe - doe \div 1460 + doe \div 36524 - doe \div 146096) \div 365
        doy == doe - (365 * yoe + yoe \div 4 - yoe \div 100)
        mp == (5 * doy + 2) \div 153
        d == doy - (153 * mp + 2) \div 5 + 1
        m == IF mp < 10 THEN mp + 3 ELSE mp - 9
        y == yoe + era * 400 + (IF m <= 2 THEN 1 ELSE 0)
    IN <<y, m, d>>

\* 0 = Monday ... 6 = Sunday (1970-01-01 was a Thursday)
Weekday(z) == (z + 3) % 7

DayNames == <<"Monday", "Tuesday", "Wednesday", "Thursday", "Friday",
              "Saturday", "Sunday">>

\* ISO 8601 week: the week of the year that holds this week's Thursday
IsoWeek(z) ==
    LET thursday == z - Weekday(z) + 3
        isoYear == CivilFromDays(thursday)[1]
    IN (thursday - DaysFromCivil(isoYear, 1, 1)) \div 7 + 1

\* strftime('%Y-%m-%d') and strftime('%Y-%m') of a Timestamp
StrfDate(ts) == PyStr(CivilFromDays(ts.v))
StrfMonth(ts) == PyStr(<<CivilFromDays(ts.v)[1], CivilFromDays(ts.v)[2]>>)

ParsableDate(txt) ==
    /\ Len(txt) = 3
    /\ txt[2] \in 1 .. 12
    /\ txt[3] \in 1 .. DaysInMonth(txt[1], txt[2])

\* pd.to_datetime(..., errors='coerce'): nothing raises
ToDatetimeCoerces(cell) == FALSE

\* pd.to_datetime on one cell: a blank cell (NaN) gives NaT, a date text
\* gives its Timestamp, any other text raises
ToDatetimeRaises(cell) == cell.t = "str" /\ ~ParsableDate(cell.v)

to_datetime(cell) ==
    IF cell.t = "str"
    THEN Timestamp(DaysFromCivil(cell.v[1], cell.v[2], cell.v[3]))
    ELSE NaT

\* ------------------------------------------------------- upstream replies
FirstDay == DaysFromCivil(2024, 12, 29)

\* header of the FIRMS csv (the columns the model follows)
FirmsColumns == {"latitude", "bright_ti4", "acq_date", "frp", "satellite"}

UpstreamColumnSets ==
    {FirmsColumns} \cup
    {FirmsColumns \ {c} : c \in {"acq_date", "frp", "bright_ti4"}}

\* an acq_date cell as read_csv delivers it: a date text, a blank cell
\* (NaN) or a text that is no date ('2024-13-45')
DateCells ==
    {PyStr(CivilFromDays(FirstDay + i)) : i \in 0 .. MaxDate - 1}
        \cup {PyNaN, PyStr(<<2024, 13, 45>>)}

FrpCells == {PyFloat(f) : f \in 1 .. MaxFrp}

RawRow(cols, i, d, f) ==
    [c \in cols |->
        CASE c = "latitude" -> PyFloat(i)
          [] c = "bright_ti4" -> PyFloat(300)
          [] c = "acq_date" -> d
          [] c = "frp" -> f
          [] OTHER -> PyStr("N20")]

\* what pd.read_csv returns for a csv text with up to maxRows data rows
RawTables(maxRows) ==
    UNION {
        { DataFrame(cols, [i \in 1 .. n |-> RawRow(cols, i, d[i], f[i])]) :
            d \in [1 .. n -> DateCells], f \in [1 .. n -> FrpCells] } :
        <<cols, n>> \in UpstreamColumnSets \X (0 .. maxRows) }

ParserError == [t |-> "ParserError", v |-> 0]

\* the outcome of requests.get(url, timeout=60); the body text is kept as
\* its stripped length and what pd.read_csv makes of it
Timeout == [kind |-> "Timeout", status_code |-> 0, stripped_len |-> 0,
            parsed |-> ParserError]
ConnectionError == [kind |-> "ConnectionError", status_code |-> 0,
                    stripped_len |-> 0, parsed |-> ParserError]
Response(code, len, parsed) ==
    [kind |-> "response", status_code |-> code, stripped_len |-> len,
     parsed |-> parsed]
NoReply == [kind |-> "", status_code |-> 0, stripped_len |-> 0,
            parsed |-> ParserError]

LongLen == 20 * MinBodyLen

OneRowTable(txt) ==
    DataFrame(FirmsColumns,
              <<RawRow(FirmsColumns, 1, PyStr(txt), PyFloat(1))>>)

FailureReplies ==
    {Timeout, ConnectionError}
        \cup {Response(c, 0, ParserError) : c \in {400, 403, 500}}
        \cup {Response(c, LongLen, OneRowTable(CivilFromDays(FirstDay))) :
                c \in {403, 500}}
        \cup {Response(StatusOk, n, ParserError) :
                n \in {0, MinBodyLen - 1, MinBodyLen, LongLen}}
        \cup {Response(StatusOk, LongLen, DataFrame(cols, <<>>)) :
                cols \in UpstreamColumnSets}

TableReplies(maxRows) ==
    {Response(StatusOk, LongLen, tbl) : tbl \in RawTables(maxRows)}

\* ------------------------------------------------- get_fire_data_brazil
NoUrl == [base |-> "", key |-> "", dataset |-> "", bbox |-> "",
          days |-> 0, date |-> <<>>]

\* the clamp testing days > 10 only
ClampDaysNoLower(d) == IF d > MaxDays THEN 10 ELSE d

ClampDays(d) == IF d < MinDays \/ d > MaxDays THEN 10 ELSE d

BuildUrl(d, key, coords, today) ==
    [base |-> "https://firms.modaps.eosdis.nasa.gov/api/area/csv/",
     key |-> key, dataset |-> "VIIRS_NOAA20_NRT", bbox |-> coords,
     days |-> ClampDays(d), date |-> today]

expected_cols ==
    <<"latitude", "longitude", "bright_ti4", "acq_date", "acq_time",
      "confidence", "frp", "daynight", "semana_ano", "mes_ano">>

DerivedCols == {"data_coleta", "semana_ano", "mes_ano", "dia_semana"}

Range(s) == {s[i] : i \in DOMAIN s}

\* lines 77-81: the date parse and the derived columns of one row
DeriveRow(row, clock) ==
    LET ts == to_datetime(row["acq_date"])
    IN [c \in (DOMAIN row) \cup DerivedCols |->
           CASE c = "acq_date" -> ts
             [] c = "data_coleta" -> PyStr(CivilFromDays(clock))
             [] c = "semana_ano" ->
                   IF ts.t = "NaTType" THEN PdNA ELSE NpUInt32(IsoWeek(ts.v))
             [] c = "mes_ano" ->
                   IF ts.t = "NaTType" THEN PyNaN ELSE StrfMonth(ts)
             [] c = "dia_semana" ->
                   IF ts.t = "NaTType" THEN PyNaN
                   ELSE PyStr(DayNames[Weekday(ts.v) + 1])
             [] OTHER -> row[c]]

RowOrders(n) ==
    {p \in [1 .. n -> 1 .. n] : \A i, j \in 1 .. n : i # j => p[i] # p[j]}

\* sort_values('acq_date') with the default ascending=True
AscOrder(a, b) ==
    \/ b["acq_date"].t = "NaTType"
    \/ /\ a["acq_date"].t # "NaTType"
       /\ a["acq_date"].v <= b["acq_date"].v

\* a may stand before b after sort_values('acq_date', ascending=False):
\* NaT goes last
DescOrder(a, b) ==
    \/ b["acq_date"].t = "NaTType"
    \/ /\ a["acq_date"].t # "NaTType"
       /\ a["acq_date"].v >= b["acq_date"].v

\* line 82: sort_values with the default quicksort promises no order among
\* rows of equal date, so every descending arrangement is an outcome
SortValues(rows) ==
    LET n == Len(rows)
    IN { [i \in 1 .. n |-> rows[p[i]]] : p \in
           {q \in RowOrders(n) :
               \A i \in 1 .. n - 1 : DescOrder(rows[q[i]], rows[q[i + 1]])} }

\* lines 85-91: every expected column missing from the frame is added, None
FillExpected(row) ==
    [c \in (DOMAIN row) \cup Range(expected_cols) |->
        IF c \in DOMAIN row THEN row[c] ELSE PyNone]

Transform(raw, clock) ==
    LET derived == [i \in 1 .. Len(raw.rows) |-> DeriveRow(raw.rows[i], clock)]
    IN { DataFrame(raw.columns \cup DerivedCols \cup Range(expected_cols),
                   [i \in 1 .. Len(s) |-> FillExpected(s[i])]) :
           s \in SortValues(derived) }

\* a log line: <<level, message>>
Return(x, lines) == [exc |-> "", ret |-> x, log |-> lines]
Raise(e, lines) == [exc |-> e, ret |-> PyNone, log |-> lines]

StatusLine == <<"INFO", "Status code">>

\* lines 60-94: the body of the try block, as the set of ways it can end
TryBody(rep, clock) ==
    IF rep.kind = "Timeout" THEN {Raise("Timeout", <<>>)}
    ELSE IF rep.kind = "ConnectionError"
    THEN {Raise("ConnectionError", <<>>)}
    ELSE IF rep.status_code \in {400, 403} \/ rep.status_code # StatusOk
    THEN {Return(PyNone, <<StatusLine, <<"ERROR", "HTTP Error">>>>)}
    ELSE IF rep.stripped_len < MinBodyLen
    THEN {Return(PyNone,
                 <<StatusLine, <<"WARNING", "Response too short / no data">>>>)}
    ELSE IF rep.parsed.t # "DataFrame"
    THEN {Raise("ParserError", <<StatusLine>>)}
    ELSE IF rep.parsed.rows = <<>>
    THEN {Return(PyNone, <<StatusLine, <<"WARNING", "Empty DataFrame">>>>)}
    ELSE IF "acq_date" \notin rep.parsed.columns
    THEN {Raise("KeyError", <<StatusLine>>)}
    ELSE IF \E i \in DOMAIN rep.parsed.rows :
                ToDatetimeRaises(rep.parsed.rows[i]["acq_date"])
    THEN {Raise("ValueError", <<StatusLine>>)}
    ELSE {Return(d, <<StatusLine, <<"INFO", "Collected records">>>>) :
            d \in Transform(rep.parsed, clock)}

Uncaught(e) == [t |-> "Exception", v |-> e]

\* the except clauses without the final 'except Exception'
ExceptClausesNoCatchAll(e) ==
    CASE e = "Timeout" ->
            [ret |-> PyNone,
             log |-> <<<<"ERROR", "Timeout connecting to NASA FIRMS (60s).">>>>]
      [] e = "ConnectionError" ->
            [ret |-> PyNone, log |-> <<<<"ERROR", "Request error">>>>]
      [] OTHER -> [ret |-> Uncaught(e), log |-> <<>>]

\* lines 96-106: the three except clauses
ExceptClauses(e) ==
    CASE e = "Timeout" ->
            [ret |-> PyNone,
             log |-> <<<<"ERROR", "Timeout connecting to NASA FIRMS (60s).">>>>]
      [] e = "ConnectionError" ->
            [ret |-> PyNone, log |-> <<<<"ERROR", "Request error">>>>]
      [] OTHER ->
            [ret |-> PyNone,
             log |-> <<<<"ERROR", "Unexpected error">>,
                       <<"ERROR", "traceback">>>>]

\* lines 59-106: what the call returns and what it logs
get_fire_data_brazil(rep, clock) ==
    {IF o.exc # ""
     THEN [ret |-> ExceptClauses(o.exc).ret,
           log |-> o.log \o ExceptClauses(o.exc).log]
     ELSE [ret |-> o.ret, log |-> o.log] :
        o \in TryBody(rep, clock)}

\* lines 49-57: the lines logged before the GET
CallLines(d) ==
    (IF d < MinDays \/ d > MaxDays
     THEN <<<<"WARNING", "Days out of range 1-10. Adjusting to 10.">>>>
     ELSE <<>>) \o <<<<"INFO", "Requesting NASA FIRMS data">>>>

\* --------------------------------------------------------- JSON rendering
\* starlette's JSONResponse renders with json.dumps(content, allow_nan=False)
\* and no default hook: None, bool, int, finite float, str, list and dict
\* with such keys are encodable, anything else raises
JNull == [t |-> "null", v |-> 0]
JNumber(q) == [t |-> "number", v |-> q]
JString(s) == [t |-> "string", v |-> s]
JArray(s) == [t |-> "array", v |-> s]
JObject(f) == [t |-> "object", v |-> f]

JsonKeyOk(k) == k.t \in {"str", "int", "float", "bool", "NoneType"}

RECURSIVE JsonEncodable(_)
JsonEncodable(x) ==
    CASE x.t \in {"NoneType", "int", "str", "float"} -> TRUE
      [] x.t = "list" -> \A i \in DOMAIN x.v : JsonEncodable(x.v[i])
      [] x.t = "dict" ->
            \A k \in DOMAIN x.v : JsonKeyOk(k) /\ JsonEncodable(x.v[k])
      [] OTHER -> FALSE

KeyText(k) == IF k.t = "str" THEN k.v ELSE ToString(k.v)

RECURSIVE JsonEncode(_)
JsonEncode(x) ==
    CASE x.t = "NoneType" -> JNull
      [] x.t = "int" -> JNumber(<<x.v, 1>>)
      [] x.t = "float" -> JNumber(x.v)
      [] x.t = "str" -> JString(x.v)
      [] x.t = "list" -> JArray([i \in DOMAIN x.v |-> JsonEncode(x.v[i])])
      [] x.t = "dict" ->
            JObject([n \in {KeyText(k) : k \in DOMAIN x.v} |->
                JsonEncode(x.v[CHOOSE k \in DOMAIN x.v : KeyText(k) = n])])

NoResponse == [status |-> 0, content |-> PyNone, body |-> JNull]

InternalServerError(content) ==
    [status |-> StatusServerError, content |-> content,
     body |-> JString("Internal Server Error")]

JSONResponse(content) ==
    IF JsonEncodable(content)
    THEN [status |-> StatusOk, content |-> content, body |-> JsonEncode(content)]
    ELSE InternalServerError(content)

\* ------------------------------------------------------------ HTTP layer
HttpPaths == {"/fire_data_brazil", "/fire_data_brazil/summary"}
Callers == HttpPaths \cup {"direct"}

\* the query parameter declared with ge=1 only
QueryValidNoUpper(d) == d >= 1

\* Query(default=DAYS_DEFAULT, ge=1, le=10)
QueryValid(d) == d >= 1 /\ d <= 10

ValidationError ==
    [status |-> StatusUnprocessable, content |-> PyNone,
     body |-> JString("value out of range")]

Column(frame, c) == [i \in 1 .. Len(frame.rows) |-> frame.rows[i][c]]

NotNull(cells) == SelectSeq(cells, LAMBDA x : ~IsNull(x))

\* Series.min() / Series.max() of a datetime column skip NaT
SeriesMin(cells) ==
    IF NotNull(cells) = <<>> THEN NaT
    ELSE CHOOSE x \in Range(NotNull(cells)) :
            \A y \in Range(NotNull(cells)) : x.v <= y.v

SeriesMax(cells) ==
    IF NotNull(cells) = <<>> THEN NaT
    ELSE CHOOSE x \in Range(NotNull(cells)) :
            \A y \in Range(NotNull(cells)) : x.v >= y.v

RECURSIVE SumCells(_)
SumCells(cells) ==
    IF cells = <<>> THEN 0 ELSE Head(cells).v[1] + SumCells(Tail(cells))

\* float(Series.mean()): nulls are skipped, a column of nulls gives nan
Mean(cells) ==
    IF NotNull(cells) = <<>> THEN PyNaN
    ELSE PyRatio(SumCells(NotNull(cells)), Len(NotNull(cells)))

\* groupby(keys).size().to_dict(): rows with a null key are dropped
GroupSize(keys) ==
    PyDict([k \in Range(NotNull(keys)) |->
        PyInt(Cardinality({i \in DOMAIN keys : keys[i] = k}))])

\* Series.dt.date
DtDate(cells) ==
    [i \in DOMAIN cells |->
        IF cells[i].t = "NaTType" THEN NaT
        ELSE PyDate(CivilFromDays(cells[i].v))]

\* DataFrame.to_dict(orient='records')
ToDictRecords(frame) ==
    PyList([i \in 1 .. Len(frame.rows) |->
        PyDict([k \in {PyStr(c) : c \in frame.columns} |-> frame.rows[i][k.v]])])

Metadata(total, start, end, d, clock, coords) ==
    StrDict([total_records |-> total, period_start |-> start,
             period_end |-> end, requested_days |-> PyInt(d),
             collection_timestamp |-> PyStr(CivilFromDays(clock)),
             source |-> PyStr("NASA FIRMS VIIRS_NOAA20_NRT"),
             coordinates |-> PyStr(coords)])

EmptyDict == PyDict([k \in {} |-> PyNone])

\* read_fire_data testing 'not df.empty' without 'df is not None'
read_fire_data_NoNoneCheck(d, frame, clock, coords) ==
    IF frame.t # "DataFrame" THEN InternalServerError(PyNone)
    ELSE IF SeriesMin(Column(frame, "acq_date")).t = "NaTType"
    THEN InternalServerError(PyNone)
    ELSE JSONResponse(StrDict([
            metadata |-> Metadata(
                PyInt(Len(frame.rows)),
                StrfDate(SeriesMin(Column(frame, "acq_date"))),
                StrfDate(SeriesMax(Column(frame, "acq_date"))),
                d, clock, coords),
            data |-> ToDictRecords(frame)]))

\* lines 122-152
read_fire_data(d, frame, clock, coords) ==
    IF frame.t = "Exception" THEN InternalServerError(PyNone)
    ELSE IF frame.t = "DataFrame" /\ frame.rows # <<>>
    THEN IF SeriesMin(Column(frame, "acq_date")).t = "NaTType"
         THEN InternalServerError(PyNone)    \* NaT.strftime raises
         ELSE JSONResponse(StrDict([
                metadata |-> Metadata(
                    PyInt(Len(frame.rows)),
                    StrfDate(SeriesMin(Column(frame, "acq_date"))),
                    StrfDate(SeriesMax(Column(frame, "acq_date"))),
                    d, clock, coords),
                data |-> ToDictRecords(frame)]))
    ELSE JSONResponse(StrDict([
            metadata |-> Metadata(PyInt(0), PyNone, PyNone, d, clock, coords),
            data |-> PyList(<<>>)]))

\* lines 155-170
fire_data_summary(d, frame) ==
    IF frame.t = "Exception" THEN InternalServerError(PyNone)
    ELSE IF frame.t = "DataFrame" /\ frame.rows # <<>>
    THEN IF SeriesMin(Column(frame, "acq_date")).t = "NaTType"
         THEN InternalServerError(PyNone)    \* NaT.strftime raises
         ELSE JSONResponse(StrDict([
                overall_summary |-> StrDict([
                    total_fires |-> PyInt(Len(frame.rows)),
                    period_start |->
                        StrfDate(SeriesMin(Column(frame, "acq_date"))),
                    period_end |->
                        StrfDate(SeriesMax(Column(frame, "acq_date"))),
                    avg_brightness |-> Mean(Column(frame, "bright_ti4")),
                    avg_radiative_power |->
                        IF "frp" \in frame.columns
                        THEN Mean(Column(frame, "frp")) ELSE PyNone]),
                by_day |-> GroupSize(DtDate(Column(frame, "acq_date"))),
                by_week |-> GroupSize(Column(frame, "semana_ano"))]))
    ELSE JSONResponse(StrDict([overall_summary |-> EmptyDict,
                               by_day |-> EmptyDict, by_week |-> EmptyDict]))

\* ----------------------------------------------------------------- state
StartDay == DaysFromCivil(2025, 1, 5)

\* MAP_KEY = os.getenv("MAP_KEY"): the configured key, or None, which the
\* f-string renders as 'None'
Init ==
    /\ MAP_KEY \in {"secret", "None"}
    /\ now = StartDay
    /\ date_today = CivilFromDays(StartDay)
    /\ AREA_COORDS = "-53.1,-25.3,-44.1,-19.8"
    /\ pc = [r \in Requests |-> "idle"]
    /\ endpoint = [r \in Requests |-> ""]
    /\ days = [r \in Requests |-> 0]
    /\ url = [r \in Requests |-> NoUrl]
    /\ fetches = [r \in Requests |-> 0]
    /\ reply = [r \in Requests |-> NoReply]
    /\ df = [r \in Requests |-> PyNone]
    /\ response = [r \in Requests |-> NoResponse]
    /\ log = [r \in Requests |-> <<>>]

globals == <<MAP_KEY, date_today, AREA_COORDS>>

\* a request arrives (or a Python caller calls get_fire_data_brazil); the
\* framework validates days before the handler body runs
Receive(r, callers, dayValues) ==
    /\ pc[r] = "idle"
    /\ \E ep \in callers, given \in BOOLEAN, d \in dayValues :
         LET dd == IF given THEN d ELSE DAYS_DEFAULT
         IN /\ endpoint' = [endpoint EXCEPT ![r] = ep]
            /\ days' = [days EXCEPT ![r] = dd]
            /\ IF ep \in HttpPaths /\ ~QueryValid(dd)
               THEN /\ pc' = [pc EXCEPT ![r] = "done"]
                    /\ response' = [response EXCEPT ![r] = ValidationError]
               ELSE /\ pc' = [pc EXCEPT ![r] = "handler"]
                    /\ UNCHANGED response
    /\ UNCHANGED <<globals, now, url, fetches, reply, df, log>>

\* the call recomputing date_today from the clock before building the url
CallRefreshingDate(r) ==
    /\ pc[r] = "handler"
    /\ date_today' = CivilFromDays(now)
    /\ url' = [url EXCEPT ![r] =
                 BuildUrl(days[r], MAP_KEY, AREA_COORDS, CivilFromDays(now))]
    /\ log' = [log EXCEPT ![r] = @ \o CallLines(days[r])]
    /\ pc' = [pc EXCEPT ![r] = "fetching"]
    /\ UNCHANGED <<MAP_KEY, AREA_COORDS, now, endpoint, days, fetches, reply,
                   df, response>>

\* lines 49-57: clamp and build the url
Call(r) ==
    /\ pc[r] = "handler"
    /\ url' = [url EXCEPT ![r] =
                 BuildUrl(days[r], MAP_KEY, AREA_COORDS, date_today)]
    /\ log' = [log EXCEPT ![r] = @ \o CallLines(days[r])]
    /\ pc' = [pc EXCEPT ![r] = "fetching"]
    /\ UNCHANGED <<globals, now, endpoint, days, fetches, reply, df, response>>

\* the fetch step with one retry after an outcome that gave no data
FetchRetrying(r, replies) ==
    /\ pc[r] = "fetching"
    /\ \E rep \in replies :
         /\ reply' = [reply EXCEPT ![r] = rep]
         /\ \E out \in get_fire_data_brazil(rep, now) :
                /\ df' = [df EXCEPT ![r] = out.ret]
                /\ log' = [log EXCEPT ![r] = @ \o out.log]
                /\ pc' = [pc EXCEPT ![r] =
                            IF out.ret.t = "NoneType" /\ fetches[r] = 0
                            THEN "fetching" ELSE "returned"]
    /\ fetches' = [fetches EXCEPT ![r] = @ + 1]
    /\ UNCHANGED <<globals, now, endpoint, days, url, response>>

\* lines 59-106: the one GET and everything done with its outcome
Fetch(r, replies) ==
    /\ pc[r] = "fetching"
    /\ \E rep \in replies :
         /\ reply' = [reply EXCEPT ![r] = rep]
         /\ \E out \in get_fire_data_brazil(rep, now) :
                /\ df' = [df EXCEPT ![r] = out.ret]
                /\ log' = [log EXCEPT ![r] = @ \o out.log]
    /\ fetches' = [fetches EXCEPT ![r] = @ + 1]
    /\ pc' = [pc EXCEPT ![r] = "returned"]
    /\ UNCHANGED <<globals, now, endpoint, days, url, response>>

\* the rest of the handler: shape the response
Respond(r) ==
    /\ pc[r] = "returned"
    /\ response' = [response EXCEPT ![r] =
          CASE endpoint[r] = "/fire_data_brazil" ->
                  read_fire_data(days[r], df[r], now, AREA_COORDS)
            [] endpoint[r] = "/fire_data_brazil/summary" ->
                  fire_data_summary(days[r], df[r])
            [] OTHER -> NoResponse]
    /\ pc' = [pc EXCEPT ![r] = "done"]
    /\ UNCHANGED <<globals, now, endpoint, days, url, fetches, reply, df,
                   log>>

\* the response is sent and everything the request held is discarded
Finish(r) ==
    /\ pc[r] = "done"
    /\ pc' = [pc EXCEPT ![r] = "idle"]
    /\ endpoint' = [endpoint EXCEPT ![r] = ""]
    /\ days' = [days EXCEPT ![r] = 0]
    /\ url' = [url EXCEPT ![r] = NoUrl]
    /\ fetches' = [fetches EXCEPT ![r] = 0]
    /\ reply' = [reply EXCEPT ![r] = NoReply]
    /\ df' = [df EXCEPT ![r] = PyNone]
    /\ response' = [response EXCEPT ![r] = NoResponse]
    /\ log' = [log EXCEPT ![r] = <<>>]
    /\ UNCHANGED <<globals, now>>

\* midnight passes while the process keeps running
Tick ==
    /\ now < StartDay + MaxClock
    /\ now' = now + 1
    /\ UNCHANGED <<globals, pc, endpoint, days, url, fetches, reply, df,
                   response, log>>

DaysDomain == (MinDays - 2) .. (MaxDays + 2)

SpecReplies == FailureReplies \cup TableReplies(1)

TransformReplies == TableReplies(MaxRows)

\* one request at a time, every days value, every class of upstream outcome
Next ==
    \/ Receive(1, Callers, DaysDomain)
    \/ Call(1)
    \/ Fetch(1, SpecReplies)
    \/ Respond(1)
    \/ Finish(1)

Spec == Init /\ [][Next]_vars

\* one request at a time, every upstream table up to MaxRows rows
NextTransform ==
    \/ Receive(1, Callers, {DAYS_DEFAULT})
    \/ Call(1)
    \/ Fetch(1, TransformReplies)
    \/ Respond(1)
    \/ Finish(1)

SpecTransform == Init /\ [][NextTransform]_vars

ConcReplies ==
    {Timeout, Response(StatusServerError, 0, ParserError),
     Response(StatusOk, MinBodyLen - 1, ParserError),
     Response(StatusOk, LongLen, ParserError),
     Response(StatusOk, LongLen, OneRowTable(CivilFromDays(FirstDay)))}

\* requests interleave while the clock runs
NextConc ==
    \/ \E r \in Requests :
          \/ Receive(r, HttpPaths, {MinDays, MaxDays + 1})
          \/ Call(r)
          \/ Fetch(r, ConcReplies)
          \/ Respond(r)
          \/ Finish(r)
    \/ Tick

SpecConc == Init /\ [][NextConc]_vars

\* ------------------------------------------------------------ properties
\* the reply is one of the feed failures: unreachable, non-200, too-short
\* body, unparseable body, zero rows, or rows whose dates cannot be parsed
FeedFailure(rep) ==
    \/ rep.kind \in {"Timeout", "ConnectionError"}
    \/ /\ rep.kind = "response"
       /\ \/ rep.status_code # 200
          \/ rep.stripped_len < 10
          \/ rep.parsed.t # "DataFrame"
          \/ rep.parsed.rows = <<>>
          \/ "acq_date" \notin rep.parsed.columns
          \/ \E i \in DOMAIN rep.parsed.rows :
                /\ rep.parsed.rows[i]["acq_date"].t = "str"
                /\ ~ParsableDate(rep.parsed.rows[i]["acq_date"].v)

\* the reply is a 200 with a csv body that parses to a table with rows
TableWithRows(rep) ==
    /\ rep.kind = "response"
    /\ rep.status_code = 200
    /\ rep.stripped_len >= 10
    /\ rep.parsed.t = "DataFrame"
    /\ rep.parsed.rows # <<>>

HasReturned(r) == pc[r] \in {"returned", "done"} /\ fetches[r] > 0

ClampWarning == <<"WARNING", "Days out of range 1-10. Adjusting to 10.">>

FixedColumns ==
    {"latitude", "longitude", "bright_ti4", "acq_date", "acq_time",
     "confidence", "frp", "daynight", "semana_ano", "mes_ano"}

\* C1: get_fire_data_brazil never raises: whatever days and whatever the
\* upstream outcome, the call returns None or a frame with at least one
\* row, and it returns None for every failure outcome.
C1_NeverRaises ==
    \A r \in Requests :
        /\ df[r].t # "Exception"
        /\ HasReturned(r) =>
              /\ df[r].t \in {"NoneType", "DataFrame"}
              /\ df[r].t = "DataFrame" => Len(df[r].rows) >= 1
              /\ FeedFailure(reply[r]) => df[r].t = "NoneType"

C1_Witness ==
    \E r \in Requests :
        /\ pc[r] = "returned"
        /\ endpoint[r] = "direct"
        /\ days[r] > 10
        /\ TableWithRows(reply[r])
        /\ "acq_date" \notin reply[r].parsed.columns
        /\ df[r].t = "NoneType"
        /\ \E i \in DOMAIN log[r] : log[r][i] = <<"ERROR", "Unexpected error">>

\* C2: for days in 1..10 and any feed failure both data endpoints answer
\* 200: /fire_data_brazil with total_records 0, null period bounds,
\* requested_days = days and empty data; the summary with its three
\* fields present and empty.
C2_FeedFailureAnswers200 ==
    \A r \in Requests :
        (/\ pc[r] = "done"
         /\ endpoint[r] \in HttpPaths
         /\ days[r] \in 1 .. 10
         /\ fetches[r] > 0
         /\ FeedFailure(reply[r]))
        => /\ response[r].status = 200
           /\ response[r].body.t = "object"
           /\ endpoint[r] = "/fire_data_brazil" =>
                LET body == response[r].body.v
                IN /\ {"metadata", "data"} \subseteq DOMAIN body
                   /\ body["metadata"].v["total_records"] = JNumber(<<0, 1>>)
                   /\ body["metadata"].v["period_start"] = JNull
                   /\ body["metadata"].v["period_end"] = JNull
                   /\ body["metadata"].v["requested_days"]
                         = JNumber(<<days[r], 1>>)
                   /\ body["data"].t = "array"
                   /\ Len(body["data"].v) = 0
           /\ endpoint[r] = "/fire_data_brazil/summary" =>
                LET body == response[r].body.v
                IN /\ DOMAIN body = {"overall_summary", "by_day", "by_week"}
                   /\ \A k \in DOMAIN body :
                        body[k].t = "object" /\ DOMAIN body[k].v = {}

C2_Witness ==
    \E r \in Requests :
        /\ pc[r] = "done"
        /\ endpoint[r] = "/fire_data_brazil"
        /\ days[r] = 5
        /\ reply[r].kind = "ConnectionError"
        /\ response[r].status = 200
        /\ response[r].body.v["metadata"].v["requested_days"]
              = JNumber(<<5, 1>>)

\* C3: a request to either data endpoint with days outside 1..10 is
\* answered with a client error without get_fire_data_brazil being called:
\* no url is built, no GET is issued, and a url built for an HTTP request
\* always carries the requested days unclamped.
C3_RejectedBeforeInvocation ==
    \A r \in Requests :
        endpoint[r] \in HttpPaths =>
            /\ days[r] \notin 1 .. 10 =>
                  /\ pc[r] = "done"
                  /\ response[r].status \in 400 .. 499
                  /\ fetches[r] = 0
                  /\ url[r] = NoUrl
                  /\ reply[r] = NoReply
                  /\ log[r] = <<>>
            /\ url[r] # NoUrl =>
                  /\ url[r].days = days[r]
                  /\ \A i \in DOMAIN log[r] : log[r][i] # ClampWarning

C3_Witness ==
    \E r \in Requests :
        /\ pc[r] = "done"
        /\ endpoint[r] = "/fire_data_brazil/summary"
        /\ days[r] = 11
        /\ response[r].status = 422
        /\ fetches[r] = 0

\* C4: the day-count of the upstream url is days when days is in 1..10 and
\* 10 otherwise (then with the warning logged), so it is always in 1..10;
\* the url carries the dataset VIIRS_NOAA20_NRT and the fixed bbox.
C4_UrlDayCount ==
    \A r \in Requests :
        url[r] # NoUrl =>
            /\ url[r].days = (IF days[r] \in 1 .. 10 THEN days[r] ELSE 10)
            /\ url[r].days \in 1 .. 10
            /\ url[r].dataset = "VIIRS_NOAA20_NRT"
            /\ url[r].bbox = "-53.1,-25.3,-44.1,-19.8"
            /\ days[r] \notin 1 .. 10 <=>
                 \E i \in DOMAIN log[r] : log[r][i] = ClampWarning

C4_Witness ==
    \E r \in Requests :
        /\ endpoint[r] = "direct"
        /\ days[r] < 1
        /\ pc[r] = "fetching"
        /\ url[r].days = 10
        /\ log[r][1] = ClampWarning

\* every acq_date cell of the table is a date text
ValidDates(tbl) ==
    /\ "acq_date" \in tbl.columns
    /\ \A i \in DOMAIN tbl.rows :
          /\ tbl.rows[i]["acq_date"].t = "str"
          /\ ParsableDate(tbl.rows[i]["acq_date"].v)

\* C5: a table of N >= 1 rows with a valid acq_date column comes back as
\* exactly N records, a rearrangement of the upstream rows, each with all
\* ten fixed columns (None where upstream has no such column), ordered by
\* acq_date non-increasing.
C5_TransformKeepsRows ==
    \A r \in Requests :
        (HasReturned(r) /\ TableWithRows(reply[r])
            /\ ValidDates(reply[r].parsed))
        => LET raw == reply[r].parsed
               out == df[r]
               n == Len(raw.rows)
           IN /\ out.t = "DataFrame"
              /\ Len(out.rows) = n
              /\ \E p \in RowOrders(n) :
                    \A i \in 1 .. n :
                        /\ \A c \in raw.columns \ {"acq_date"} :
                              out.rows[i][c] = raw.rows[p[i]][c]
                        /\ out.rows[i]["acq_date"].t = "Timestamp"
                        /\ CivilFromDays(out.rows[i]["acq_date"].v)
                              = raw.rows[p[i]]["acq_date"].v
              /\ \A i \in 1 .. n :
                    /\ FixedColumns \subseteq DOMAIN out.rows[i]
                    /\ \A c \in FixedColumns \
                              (raw.columns \cup {"semana_ano", "mes_ano"}) :
                          out.rows[i][c] = [t |-> "NoneType", v |-> 0]
              /\ \A i \in 1 .. n - 1 :
                    out.rows[i]["acq_date"].v >= out.rows[i + 1]["acq_date"].v

C5_Witness ==
    \E r \in Requests :
        /\ pc[r] = "returned"
        /\ TableWithRows(reply[r])
        /\ ValidDates(reply[r].parsed)
        /\ Len(reply[r].parsed.rows) = 3
        /\ "frp" \notin reply[r].parsed.columns
        /\ reply[r].parsed.rows[1]["acq_date"].v
              = CivilFromDays(FirstDay)
        /\ reply[r].parsed.rows[3]["acq_date"].v
              = CivilFromDays(FirstDay + 1)
        /\ df[r].t = "DataFrame"
        /\ Len(df[r].rows) = 3
        /\ df[r].rows[1]["latitude"] = PyFloat(3)
        /\ df[r].rows[1]["frp"] = PyNone

\* C6: in the summary the handler builds for a non-empty frame,
\* avg_radiative_power is None when the upstream table has no frp column
\* and the mean of frp otherwise.
C6_AvgRadiativePowerNullWhenAbsent ==
    \A r \in Requests :
        (/\ pc[r] = "done"
         /\ endpoint[r] = "/fire_data_brazil/summary"
         /\ df[r].t = "DataFrame"
         /\ response[r].content.t = "dict")
        => LET avg == Get(Get(response[r].content, "overall_summary"),
                          "avg_radiative_power")
               frp == Column(reply[r].parsed, "frp")
           IN IF "frp" \notin reply[r].parsed.columns
              THEN avg.t = "NoneType"
              ELSE /\ avg.t = "float"
                   /\ avg.v[1] * Len(frp) = SumCells(frp) * avg.v[2]

RECURSIVE SumCounts(_, _)
SumCounts(m, keys) ==
    IF keys = {} THEN 0
    ELSE LET k == CHOOSE x \in keys : TRUE
         IN m[k].v[1] + SumCounts(m, keys \ {k})

\* C7: on success (here: a table with the full header and valid dates) the
\* summary response is a 200 whose by_day maps every distinct acquisition
\* date to the number of records of that date, whose total_fires is the
\* number of records, and whose by_day and by_week counts each add up to
\* total_fires.
C7_SummaryCountsByDay ==
    \A r \in Requests :
        (/\ pc[r] = "done"
         /\ endpoint[r] = "/fire_data_brazil/summary"
         /\ df[r].t = "DataFrame"
         /\ reply[r].parsed.columns = FirmsColumns
         /\ ValidDates(reply[r].parsed))
        => /\ response[r].status = 200
           /\ response[r].body.t = "object"
           /\ LET body == response[r].body.v
                  dates == Column(df[r], "acq_date")
                  n == Len(df[r].rows)
                  byDay == body["by_day"].v
                  byWeek == body["by_week"].v
              IN /\ body["overall_summary"].v["total_fires"]
                       = JNumber(<<n, 1>>)
                 /\ DOMAIN byDay
                       = {CivilFromDays(dates[i].v) : i \in 1 .. n}
                 /\ \A i \in 1 .. n :
                       byDay[CivilFromDays(dates[i].v)] =
                          JNumber(<<Cardinality(
                              {j \in 1 .. n : dates[j] = dates[i]}), 1>>)
                 /\ SumCounts(byDay, DOMAIN byDay) = n
                 /\ SumCounts(byWeek, DOMAIN byWeek) = n

\* the table lacks acq_date or has a cell that is text but no date
MissingOrBadDate(tbl) ==
    \/ "acq_date" \notin tbl.columns
    \/ \E i \in DOMAIN tbl.rows :
          /\ tbl.rows[i]["acq_date"].t = "str"
          /\ ~ParsableDate(tbl.rows[i]["acq_date"].v)

ClockValues == StartDay .. StartDay + MaxClock

\* C9: an accepted request has issued no GET before its fetch step and
\* exactly one once get_fire_data_brazil has returned, whatever the
\* outcome, and the frame its response is built from is the one made from
\* its own reply.
C9_ExactlyOneGet ==
    \A r \in Requests :
        /\ pc[r] \in {"idle", "handler", "fetching"} =>
              fetches[r] = 0 /\ response[r] = NoResponse
        /\ (pc[r] \in {"returned", "done"} /\ days[r] \in 1 .. 10) =>
              /\ fetches[r] = 1
              /\ \E c \in ClockValues :
                    df[r] \in {o.ret : o \in get_fire_data_brazil(reply[r], c)}
        /\ (pc[r] = "done" /\ days[r] \in 1 .. 10) =>
              response[r] \in
                 {read_fire_data(days[r], df[r], c, AREA_COORDS) :
                     c \in ClockValues}
                 \cup {fire_data_summary(days[r], df[r])}

C9_Witness ==
    \E r1, r2 \in Requests :
        /\ r1 # r2
        /\ pc[r1] = "done" /\ pc[r2] = "done"
        /\ fetches[r1] = 1 /\ fetches[r2] = 1
        /\ endpoint[r1] = endpoint[r2]
        /\ days[r1] = days[r2]
        /\ reply[r1].kind = "Timeout"
        /\ TableWithRows(reply[r2])
        /\ response[r1].status = 200
        /\ response[r2].status # response[r1].status

\* the body without its collection timestamp
Payload(resp) ==
    IF resp.body.t = "object" /\ "metadata" \in DOMAIN resp.body.v
    THEN <<resp.status,
           [k \in (DOMAIN resp.body.v["metadata"].v)
                    \ {"collection_timestamp"} |->
               resp.body.v["metadata"].v[k]],
           resp.body.v["data"]>>
    ELSE <<resp.status, resp.body>>

UrlsCarryStartupValues ==
    /\ date_today = CivilFromDays(StartDay)
    /\ AREA_COORDS = "-53.1,-25.3,-44.1,-19.8"
    /\ \A r \in Requests :
          url[r] # NoUrl =>
              /\ url[r].date = CivilFromDays(StartDay)
              /\ url[r].key = MAP_KEY
              /\ url[r].bbox = "-53.1,-25.3,-44.1,-19.8"
    /\ \A r1, r2 \in Requests :
          (/\ pc[r1] = "done" /\ pc[r2] = "done"
           /\ endpoint[r1] = endpoint[r2]
           /\ days[r1] = days[r2]
           /\ reply[r1] = reply[r2])
          => Payload(response[r1]) = Payload(response[r2])

\* C10: no step changes MAP_KEY, date_today or AREA_COORDS, so under any
\* interleaving every url carries the process-start date, the startup key
\* and the fixed bbox, and two requests with the same endpoint, days and
\* upstream reply get the same payload (collection timestamp aside).
C10_GlobalsKeepStartupValues ==
    [][globals' = globals /\ UrlsCarryStartupValues']_vars

C10_Witness ==
    \E r \in Requests :
        /\ now > StartDay
        /\ pc[r] = "returned"
        /\ df[r].t = "DataFrame"
        /\ df[r].rows[1]["data_coleta"] = PyStr(CivilFromDays(StartDay + 1))
        /\ url[r].date = CivilFromDays(StartDay)

====
